---- MODULE Spec2Model ----
(***************************************************************************)
(* A model of the AirBnB_clone console: the BaseModel entity               *)
(* (models/base_model.py), the FileStorage persistence store               *)
(* (models/engine/file_storage.py) and the HBNBCommand interpreter         *)
(* (console.py).                                                           *)
(*                                                                         *)
(* Text is modelled as a sequence of symbols.  A symbol is either a        *)
(* punctuation character (" ", "\"", ".") or an indivisible word such as   *)
(* "User", "u1" or "created_at".  Python values are tagged records:        *)
(* Str(t) is the str with text t, Dt(n) the native datetime of instant n,  *)
(* PyInt(n) the int n and None the value None.                               *)
(***************************************************************************)
EXTENDS Integers, Sequences, FiniteSets, TLC

VARIABLES
    objects,    \* FileStorage.__objects : composite key -> entity
    file,       \* the backing file db.json
    clock,      \* the instant the next datetime.now() returns
    uuids,      \* how many times uuid.uuid4() has been called
    running,    \* TRUE while the interpreter process is alive
    op,         \* the last operation and its arguments
    out,        \* what the last operation printed, line by line
    err,        \* the exception the last operation raised, or "none"
    destroyed,  \* the composite keys removed by a destroy command so far
    flushes,    \* how many times the last operation called FileStorage.save
    ent,        \* the entity a direct user of the BaseModel API holds
    entKey      \* the key the store holds that very entity under, or <<>>

vars == <<objects, file, clock, uuids, running, op, out, err, destroyed,
          flushes, ent, entKey>>

----------------------------------------------------------------------------
(* Bounds *)

\* how many entities are ever constructed without a field map
MaxObjects == 2

\* how many entities the direct API user constructs without a field map
MaxApiNew == 1

\* how many times BaseModel.save is called through the API
MaxSaves == 2

----------------------------------------------------------------------------
(* Text and values *)

SP == " "
DQ == "\""
DOT == "."

Str(t) == [ty |-> "str", v |-> t]
Dt(n) == [ty |-> "dt", v |-> n]
PyInt(n) == [ty |-> "int", v |-> n]
None == [ty |-> "none", v |-> 0]
\* a datetime.date, which is no datetime.datetime: the d-th day
PyDate(d) == [ty |-> "date", v |-> d]

\* the instants a datetime can denote in the model
Instants == 0 .. (2 * MaxObjects + 2)

\* an instant later than every datetime.now() of a run
Future == 2 * MaxObjects + 2

\* datetime.isoformat(): the ISO-8601 text of an instant
IsoFormat(n) == <<"T" \o ToString(n)>>

\* date.isoformat(), which is str(date): the text "YYYY-MM-DD" of a day
DateIsoFormat(d) == <<"Y" \o ToString(d)>>

\* the instant at which day d begins
Midnight(d) == d

\* datetime.fromisoformat(): the instant an ISO-8601 text denotes, a text
\* with a date and no time denoting the beginning of the day;
\* ok is FALSE where Python raises ValueError
FromIsoFormat(t) ==
    IF \E n \in Instants : t = IsoFormat(n)
    THEN [ok |-> TRUE, v |-> Dt(CHOOSE n \in Instants : t = IsoFormat(n))]
    ELSE IF \E d \in Instants : t = DateIsoFormat(d)
         THEN [ok |-> TRUE,
               v |-> Dt(Midnight(CHOOSE d \in Instants :
                                     t = DateIsoFormat(d)))]
         ELSE [ok |-> FALSE, v |-> None]

\* str(value)
PyStr(x) ==
    CASE x.ty = "str" -> x.v
      [] x.ty = "int" -> <<ToString(x.v)>>
      [] x.ty = "dt" -> <<"D" \o ToString(x.v)>>
      [] x.ty = "date" -> DateIsoFormat(x.v)
      [] OTHER -> <<"None">>

\* a variant that returns the same text at every call
Uuid4_Same(n) == <<"u1">>

\* str(uuid.uuid4()) for the n-th call
Uuid4(n) == <<"u" \o ToString(n)>>

ID == <<"id">>
CREATED_AT == <<"created_at">>
UPDATED_AT == <<"updated_at">>
CLASS == <<"__class__">>

timestamp_keys == {CREATED_AT, UPDATED_AT}

\* the empty dict
EmptyDict == <<>>

----------------------------------------------------------------------------
(* models/__supported_class.py and FileStorage.__classes *)

supported_classes ==
    {"BaseModel", "User", "State", "City", "Amenity", "Place", "Review"}

FileStorage__classes == {"BaseModel"}

----------------------------------------------------------------------------
(* models/base_model.py *)

\* a variant that accepts datetime objects only and parses no string
handle_timestamp_update_NoParse(timestamp) ==
    IF timestamp.ty = "dt" THEN timestamp ELSE None

\* handle_timestamp_update(timestamp): a datetime is returned as it is,
\* anything else goes through fromisoformat(str(timestamp)); None on failure
handle_timestamp_update(timestamp) ==
    IF timestamp.ty = "dt"
    THEN timestamp
    ELSE LET parsed == FromIsoFormat(PyStr(timestamp))
         IN  IF parsed.ok THEN parsed.v ELSE None

\* print(text): one printed line
Line(t) == [print |-> "text", v |-> t]

TimestampDiag == Line(<<"Failed to update datetime. Invalid input.">>)

\* An operation on an entity yields the entity and the lines it printed.
Res(e, lines) == [e |-> e, out |-> lines]

\* object.__setattr__(self, name, value)
ObjectSetAttr(e, name, value) ==
    [e EXCEPT !.dict = (name :> value) @@ e.dict]

\* a variant that never changes the field
SetTimestamp_Keep(e, timestamp_key, timestamp_value) == Res(e, <<>>)

\* BaseModel._set_timestamp
SetTimestamp(e, timestamp_key, timestamp_value) ==
    LET updated_timestamp == handle_timestamp_update(timestamp_value)
    IN  IF updated_timestamp # None
        THEN Res(ObjectSetAttr(e, timestamp_key, updated_timestamp), <<>>)
        ELSE Res(e, <<TimestampDiag>>)

\* a variant that stores the value of id as it is given
SetAttr_NoCast(e, name, value) ==
    IF name = CREATED_AT \/ name = UPDATED_AT
    THEN SetTimestamp(e, name, value)
    ELSE Res(ObjectSetAttr(e, name, value), <<>>)

\* BaseModel.__setattr__
SetAttr(e, name, value) ==
    IF name = CREATED_AT \/ name = UPDATED_AT
    THEN SetTimestamp(e, name, value)
    ELSE IF name = ID
         THEN Res(ObjectSetAttr(e, name, Str(PyStr(value))), <<>>)
         ELSE Res(ObjectSetAttr(e, name, value), <<>>)

\* a variant that sets "__class__" like any other key
SetItem_NoSkip(e, key, value) ==
    IF key = CREATED_AT \/ key = UPDATED_AT
    THEN SetTimestamp(e, key, value)
    ELSE SetAttr(e, key, value)

\* BaseModel.__setitem__
SetItem(e, key, value) ==
    IF key # CLASS
    THEN IF key = CREATED_AT \/ key = UPDATED_AT
         THEN SetTimestamp(e, key, value)
         ELSE SetAttr(e, key, value)
    ELSE Res(e, <<>>)

\* the loop "for key, value in kwargs.items(): self[key] = value"
RECURSIVE SetItems(_, _, _)
SetItems(r, kwargs, keys) ==
    IF keys = {}
    THEN r
    ELSE LET k == CHOOSE k \in keys : TRUE
             s == SetItem(r.e, k, kwargs[k])
         IN  SetItems(Res(s.e, r.out \o s.out), kwargs, keys \ {k})

\* a variant that reads the clock again for updated_at
NewInstance_SecondNow(cls, now, u_id) ==
    LET e0 == [cls |-> cls, dict |-> EmptyDict]
        e1 == SetAttr(e0, ID, Str(u_id)).e
        e2 == SetAttr(e1, CREATED_AT, Dt(now)).e
    IN  SetAttr(e2, UPDATED_AT, Dt(now + 1)).e

\* BaseModel.__init__ without keyword arguments: the entity before it
\* registers itself (models.storage.new(self) is part of the caller's step)
NewInstance(cls, now, u_id) ==
    LET e0 == [cls |-> cls, dict |-> EmptyDict]
        e1 == SetAttr(e0, ID, Str(u_id)).e
        e2 == SetAttr(e1, CREATED_AT, Dt(now)).e
    IN  SetAttr(e2, UPDATED_AT, Dt(now)).e

\* BaseModel.__init__ with keyword arguments
InitFromKwargs(cls, kwargs) ==
    SetItems(Res([cls |-> cls, dict |-> EmptyDict], <<>>),
             kwargs, DOMAIN kwargs)

\* a variant that copies the timestamps as they are
to_dict_NoIso(e) ==
    [key \in (DOMAIN e.dict) \cup {CLASS} |->
        IF key = CLASS THEN Str(<<e.cls>>) ELSE e.dict[key]]

\* BaseModel.to_dict
to_dict(e) ==
    [key \in (DOMAIN e.dict) \cup {CLASS} |->
        IF key = CLASS
        THEN Str(<<e.cls>>)
        ELSE IF key \in timestamp_keys
             THEN Str(IsoFormat(e.dict[key].v))
             ELSE e.dict[key]]

\* BaseModel.__str__: "[ClassName] (id) {__dict__}"
ToDisplayString(e) ==
    [print |-> "str",
     obj |-> [cls |-> e.cls, id |-> e.dict[ID], dict |-> e.dict]]

----------------------------------------------------------------------------
(* json.dump / json.loads on the values a field map can hold *)

JsonEnc(x) ==
    CASE x.ty = "str" -> [j |-> "string", v |-> x.v]
      [] x.ty = "int" -> [j |-> "number", v |-> x.v]
      [] OTHER -> [j |-> "null", v |-> 0]

JsonDec(y) ==
    CASE y.j = "string" -> Str(y.v)
      [] y.j = "number" -> PyInt(y.v)
      [] OTHER -> None

\* json.dump(dictionaries, file): the text of a JSON object of JSON objects
JsonDump(dictionaries) ==
    [key \in DOMAIN dictionaries |->
        [f \in DOMAIN dictionaries[key] |-> JsonEnc(dictionaries[key][f])]]

\* json.loads(json_str)
JsonLoads(text) ==
    [key \in DOMAIN text |->
        [f \in DOMAIN text[key] |-> JsonDec(text[key][f])]]

----------------------------------------------------------------------------
(* models/engine/file_storage.py *)

\* the backing file: absent, empty, or holding a JSON text
NoFile == [st |-> "absent", text |-> EmptyDict]
EmptyFile == [st |-> "empty", text |-> EmptyDict]
JsonFile(text) == [st |-> "json", text |-> text]

\* f"{cls_name}.{obj.id}"
StoringKey(cls_name, id_text) == <<cls_name, DOT>> \o id_text

\* key.split(".")[0]: the symbols before the first "."
RECURSIVE SplitDot0(_)
SplitDot0(key) ==
    IF key = <<>> \/ Head(key) = DOT
    THEN <<>>
    ELSE <<Head(key)>> \o SplitDot0(Tail(key))

\* a variant that builds the key without the "." between class and id
StorageNew_NoDot(objs, obj) ==
    IF ID \notin DOMAIN obj.dict
    THEN [ok |-> FALSE, objects |-> objs]
    ELSE LET key == <<obj.cls>> \o PyStr(obj.dict[ID])
         IN  [ok |-> TRUE, objects |-> (key :> obj) @@ objs]

\* a variant that keeps the entry a key already has
StorageNew_KeepOld(objs, obj) ==
    IF ID \notin DOMAIN obj.dict \/ obj.cls = ""
    THEN [ok |-> FALSE, objects |-> objs]
    ELSE LET key == StoringKey(obj.cls, PyStr(obj.dict[ID]))
         IN  [ok |-> TRUE, objects |-> objs @@ (key :> obj)]

\* FileStorage.new: ok is FALSE where it raises TypeError, which it does
\* for an object without an id and for one whose __class__ has no __name__
\* (cls is "" for such an object)
StorageNew(objs, obj) ==
    IF ID \notin DOMAIN obj.dict \/ obj.cls = ""
    THEN [ok |-> FALSE, objects |-> objs]
    ELSE LET key == StoringKey(obj.cls, PyStr(obj.dict[ID]))
         IN  [ok |-> TRUE, objects |-> (key :> obj) @@ objs]

\* a variant that writes the instance fields in place of to_dict()
StorageSave_Fields(objs) ==
    JsonFile(JsonDump([key \in DOMAIN objs |-> objs[key].dict]))

\* FileStorage.save: the file contents it writes
StorageSave(objs) ==
    JsonFile(JsonDump([key \in DOMAIN objs |-> to_dict(objs[key])]))

\* obj.to_dict() raises TypeError when an instance attribute named to_dict
\* hides the method; FileStorage.save then raises before it opens the file
SaveRaises(objs) ==
    \E key \in DOMAIN objs : <<"to_dict">> \in DOMAIN objs[key].dict

\* the effect of a call of FileStorage.save on the file and the process:
\* an exception leaves the file alone and, in the console, ends cmdloop
Flush(objs) ==
    /\ file' = IF SaveRaises(objs) THEN file ELSE StorageSave(objs)
    /\ err' = IF SaveRaises(objs) THEN "TypeError" ELSE "none"
    /\ running' = ~SaveRaises(objs)
    /\ flushes' = 1

\* FileStorage.__from_json_str
from_json_str(f) ==
    IF f.st = "empty" THEN EmptyDict ELSE JsonLoads(f.text)

\* the class name FileStorage.reload resolves for a key: one symbol
ClsNameOf(key) == SplitDot0(key)

\* self.__classes[cls_name] succeeds
KnownClass(cls_name) ==
    Len(cls_name) = 1 /\ cls_name[1] \in FileStorage__classes

\* FileStorage.__instantiate_from_dict
instantiate_from_dict(cls_name, dic) == InitFromKwargs(cls_name[1], dic)

\* what the reconstructions of a reload print, key by key
RECURSIVE ReloadOut(_, _)
ReloadOut(loaded, keys) ==
    IF keys = {}
    THEN <<>>
    ELSE LET k == CHOOSE k \in keys : TRUE
         IN  instantiate_from_dict(ClsNameOf(k), loaded[k]).out
                 \o ReloadOut(loaded, keys \ {k})

\* a variant that skips the records of unknown classes and loads the rest
StorageReload_SkipUnknown(objs, f) ==
    IF f.st = "absent"
    THEN [objects |-> objs, err |-> "none", out |-> <<>>]
    ELSE LET loaded == from_json_str(f)
             known == {key \in DOMAIN loaded : KnownClass(ClsNameOf(key))}
         IN  [objects |->
                  [key \in known |->
                      instantiate_from_dict(ClsNameOf(key), loaded[key]).e],
              err |-> IF known = DOMAIN loaded THEN "none" ELSE "KeyError",
              out |-> ReloadOut(loaded, known)]

\* FileStorage.reload: the store afterwards, the exception and the output
StorageReload(objs, f) ==
    IF f.st = "absent"
    THEN [objects |-> objs, err |-> "none", out |-> <<>>]
    ELSE LET loaded == from_json_str(f)
         IN  IF \A key \in DOMAIN loaded : KnownClass(ClsNameOf(key))
             THEN [objects |->
                       [key \in DOMAIN loaded |->
                           instantiate_from_dict(ClsNameOf(key),
                                                 loaded[key]).e],
                   err |-> "none",
                   out |-> ReloadOut(loaded, DOMAIN loaded)]
             ELSE [objects |-> objs, err |-> "KeyError", out |-> <<>>]

----------------------------------------------------------------------------
(* console.py *)

SQ == "'"

\* shlex.split(s): whitespace separates tokens, a quoted stretch belongs to
\* the token it is in, quotes are dropped; ok is FALSE where shlex raises
\* ValueError("No closing quotation")
RECURSIVE Shlex(_, _, _, _, _, _)
Shlex(s, i, cur, inTok, quote, acc) ==
    IF i > Len(s)
    THEN IF quote # ""
         THEN [ok |-> FALSE, toks |-> <<>>]
         ELSE [ok |-> TRUE,
               toks |-> IF inTok THEN Append(acc, cur) ELSE acc]
    ELSE LET c == s[i]
         IN  IF quote # ""
             THEN IF c = quote
                  THEN Shlex(s, i + 1, cur, TRUE, "", acc)
                  ELSE Shlex(s, i + 1, Append(cur, c), TRUE, quote, acc)
             ELSE IF c = SP
                  THEN IF inTok
                       THEN Shlex(s, i + 1, <<>>, FALSE, "", Append(acc, cur))
                       ELSE Shlex(s, i + 1, cur, FALSE, "", acc)
                  ELSE IF c = DQ \/ c = SQ
                       THEN Shlex(s, i + 1, cur, TRUE, c, acc)
                       ELSE Shlex(s, i + 1, Append(cur, c), TRUE, "", acc)

\* str.split(): whitespace separates tokens and quotes are ordinary symbols
RECURSIVE SplitWs(_, _, _, _, _)
SplitWs(s, i, cur, inTok, acc) ==
    IF i > Len(s)
    THEN IF inTok THEN Append(acc, cur) ELSE acc
    ELSE IF s[i] = SP
         THEN IF inTok
              THEN SplitWs(s, i + 1, <<>>, FALSE, Append(acc, cur))
              ELSE SplitWs(s, i + 1, cur, FALSE, acc)
         ELSE SplitWs(s, i + 1, Append(cur, s[i]), TRUE, acc)

\* a variant that splits on whitespace without honouring quotes
ShlexSplit_Whitespace(s) ==
    [ok |-> TRUE, toks |-> SplitWs(s, 1, <<>>, FALSE, <<>>)]

ShlexSplit(s) == Shlex(s, 1, <<>>, FALSE, "", <<>>)

ClassNameMissing == Line(<<"** class name missing **">>)
ClassDoesntExist == Line(<<"** class doesn't exist **">>)
InstanceIdMissing == Line(<<"** instance id missing **">>)
NoInstanceFound == Line(<<"** no instance found **">>)
AttributeNameMissing == Line(<<"** attribute name missing **">>)
ValueMissing == Line(<<"** value missing **">>)

\* a validation step yields its verdict and what it printed
Verdict(ok, lines) == [ok |-> ok, out |-> lines]

\* args[0] in supported_classes
InSupportedClasses(tok) == Len(tok) = 1 /\ tok[1] \in supported_classes

\* HBNBCommand.has_valid_class
has_valid_class(args) ==
    IF Len(args) < 1
    THEN Verdict(FALSE, <<ClassNameMissing>>)
    ELSE IF ~InSupportedClasses(args[1])
         THEN Verdict(FALSE, <<ClassDoesntExist>>)
         ELSE Verdict(TRUE, <<>>)

\* HBNBCommand.has_id
has_id(args) ==
    IF Len(args) < 2
    THEN Verdict(FALSE, <<InstanceIdMissing>>)
    ELSE Verdict(TRUE, <<>>)

\* HBNBCommand.get_entity_storing_key
get_entity_storing_key(entity_cls, entity_id) ==
    entity_cls \o <<DOT>> \o entity_id

\* HBNBCommand.is_stored(key=...)
is_stored(objs, key) ==
    IF key \notin DOMAIN objs
    THEN Verdict(FALSE, <<NoInstanceFound>>)
    ELSE Verdict(TRUE, <<>>)

\* a variant that asks for the id before it validates the class
operate_on_entity_if_valid_IdFirst(objs, args) ==
    LET h == has_id(args)
    IN  IF ~h.ok
        THEN [ok |-> FALSE, out |-> h.out, key |-> <<>>]
        ELSE LET c == has_valid_class(args)
             IN  IF ~c.ok
                 THEN [ok |-> FALSE, out |-> c.out, key |-> <<>>]
                 ELSE LET entity_key ==
                              get_entity_storing_key(args[1], args[2])
                          st == is_stored(objs, entity_key)
                      IN  [ok |-> st.ok, out |-> st.out, key |-> entity_key]

\* HBNBCommand.operate_on_entity_if_valid up to the call of operation_fn:
\* ok tells whether operation_fn runs, key is the key it is given
operate_on_entity_if_valid(objs, args) ==
    LET c == has_valid_class(args)
    IN  IF ~c.ok
        THEN [ok |-> FALSE, out |-> c.out, key |-> <<>>]
        ELSE LET h == has_id(args)
             IN  IF ~h.ok
                 THEN [ok |-> FALSE, out |-> h.out, key |-> <<>>]
                 ELSE LET entity_key ==
                              get_entity_storing_key(args[1], args[2])
                          st == is_stored(objs, entity_key)
                      IN  [ok |-> st.ok, out |-> st.out, key |-> entity_key]

\* the operation record of a console command
Cmd(name, s) == [cmd |-> name, line |-> s]

\* shlex.split raised: the exception leaves cmdloop and the process ends
Crash(name, s) ==
    /\ running' = FALSE
    /\ op' = Cmd(name, s)
    /\ out' = <<>>
    /\ err' = "ValueError"
    /\ flushes' = 0
    /\ UNCHANGED <<objects, file, clock, uuids, destroyed, ent, entKey>>

\* the command printed its lines and changed nothing
Printed(name, s, lines) ==
    /\ op' = Cmd(name, s)
    /\ out' = lines
    /\ err' = "none"
    /\ flushes' = 0
    /\ UNCHANGED <<objects, file, clock, uuids, running, destroyed, ent, entKey>>

\* HBNBCommand.do_create
do_create(s) ==
    /\ running
    /\ LET sp == ShlexSplit(s)
           args == sp.toks
       IN  IF ~sp.ok
           THEN Crash("create", s)
           ELSE IF ~has_valid_class(args).ok
                THEN Printed("create", s, has_valid_class(args).out)
                ELSE /\ uuids < MaxObjects
                     /\ LET class_name == args[1][1]
                            new0 == NewInstance(class_name, clock,
                                                Uuid4(uuids + 1))
                            \* models.storage.new(self), the last statement
                            \* of __init__
                            reg == StorageNew(objects, new0)
                            key == StoringKey(class_name, PyStr(new0.dict[ID]))
                            \* new_instance.save(): updated_at, then flush;
                            \* the store holds this very object
                            new1 == SetAttr(new0, UPDATED_AT, Dt(clock + 1)).e
                            objs == [k \in DOMAIN reg.objects |->
                                        IF k = key THEN new1
                                        ELSE reg.objects[k]]
                        IN  /\ reg.ok
                            /\ objects' = objs
                            /\ Flush(objs)
                            /\ out' = IF SaveRaises(objs) THEN <<>>
                                      ELSE <<Line(PyStr(new1.dict[ID]))>>
                     /\ clock' = clock + 2
                     /\ uuids' = uuids + 1
                     /\ op' = Cmd("create", s)
                     /\ UNCHANGED <<destroyed, ent, entKey>>

\* a variant that saves the store after it printed the entity
do_show_Save(s) ==
    /\ running
    /\ LET sp == ShlexSplit(s)
           v == operate_on_entity_if_valid(objects, sp.toks)
       IN  IF ~sp.ok
           THEN Crash("show", s)
           ELSE IF ~v.ok
                THEN Printed("show", s, v.out)
                ELSE /\ Flush(objects)
                     /\ op' = Cmd("show", s)
                     /\ out' = <<ToDisplayString(objects[v.key])>>
                     /\ UNCHANGED <<objects, clock, uuids, destroyed, ent,
                                    entKey>>

\* HBNBCommand.do_show
do_show(s) ==
    /\ running
    /\ LET sp == ShlexSplit(s)
           v == operate_on_entity_if_valid(objects, sp.toks)
       IN  IF ~sp.ok
           THEN Crash("show", s)
           ELSE IF ~v.ok
                THEN Printed("show", s, v.out)
                ELSE Printed("show", s, <<ToDisplayString(objects[v.key])>>)

\* a variant that leaves the entry in the store
Pop_Keep(objs, key) == objs

\* storage.all().pop(storage_key)
Pop(objs, key) == [k \in (DOMAIN objs) \ {key} |-> objs[k]]

\* HBNBCommand.do_destroy
do_destroy(s) ==
    /\ running
    /\ LET sp == ShlexSplit(s)
           v == operate_on_entity_if_valid(objects, sp.toks)
       IN  IF ~sp.ok
           THEN Crash("destroy", s)
           ELSE IF ~v.ok
                THEN Printed("destroy", s, v.out)
                ELSE /\ objects' = Pop(objects, v.key)
                     /\ Flush(Pop(objects, v.key))
                     /\ destroyed' = destroyed \cup {v.key}
                     /\ op' = Cmd("destroy", s)
                     /\ out' = <<>>
                     /\ UNCHANGED <<clock, uuids, ent, entKey>>

\* a variant that reports the missing value and still sets the attribute,
\* to the empty string
update_object_attribute_EmptyValue(objs, storage_key, args) ==
    IF Len(args) < 3
    THEN [changed |-> FALSE, objects |-> objs, out |-> <<AttributeNameMissing>>]
    ELSE LET attr_name == args[3]
             value == IF Len(args) < 4 THEN Str(<<>>) ELSE Str(args[4])
             r == SetItem(objs[storage_key], attr_name, value)
         IN  [changed |-> TRUE,
              objects |-> [objs EXCEPT ![storage_key] = r.e],
              out |-> IF Len(args) < 4 THEN <<ValueMissing>> ELSE r.out]

\* a variant that sets the attribute on every entity of the store
update_object_attribute_AllEntities(objs, storage_key, args) ==
    IF Len(args) < 3
    THEN [changed |-> FALSE, objects |-> objs, out |-> <<AttributeNameMissing>>]
    ELSE IF Len(args) < 4
         THEN [changed |-> FALSE, objects |-> objs, out |-> <<ValueMissing>>]
         ELSE LET attr_name == args[3]
                  value == Str(args[4])
                  r == SetItem(objs[storage_key], attr_name, value)
              IN  [changed |-> TRUE,
                   objects |-> [k \in DOMAIN objs |->
                                   SetItem(objs[k], attr_name, value).e],
                   out |-> r.out]

\* do_update.update_object_attribute: the entity after "obj[attr_name] =
\* value" and what was printed; changed is FALSE where the function printed
\* a diagnostic and returned
update_object_attribute(objs, storage_key, args) ==
    IF Len(args) < 3
    THEN [changed |-> FALSE, objects |-> objs, out |-> <<AttributeNameMissing>>]
    ELSE IF Len(args) < 4
         THEN [changed |-> FALSE, objects |-> objs, out |-> <<ValueMissing>>]
         ELSE LET attr_name == args[3]
                  value == Str(args[4])
                  r == SetItem(objs[storage_key], attr_name, value)
              IN  [changed |-> TRUE,
                   objects |-> [objs EXCEPT ![storage_key] = r.e],
                   out |-> r.out]

\* HBNBCommand.do_update
do_update(s) ==
    /\ running
    /\ LET sp == ShlexSplit(s)
           v == operate_on_entity_if_valid(objects, sp.toks)
       IN  IF ~sp.ok
           THEN Crash("update", s)
           ELSE IF ~v.ok
                THEN Printed("update", s, v.out)
                ELSE LET u == update_object_attribute(objects, v.key, sp.toks)
                     IN  IF ~u.changed
                         THEN Printed("update", s, u.out)
                         ELSE /\ objects' = u.objects
                              /\ Flush(u.objects)
                              /\ op' = Cmd("update", s)
                              /\ out' = u.out
                              /\ UNCHANGED <<clock, uuids, destroyed, ent,
                                             entKey>>

----------------------------------------------------------------------------
(* console.py: the commands as functions of the store and the file, for   *)
(* the callers that run a command inside another one (precmd, the bulk     *)
(* update loop)                                                            *)

\* what a command leaves behind: the store, the file, the printed lines, the
\* exception it raised or "none", the number of calls of FileStorage.save
\* and the keys it removed
Outcome(objs, f, lines, e, n, gone) ==
    [objects |-> objs, file |-> f, out |-> lines, err |-> e, flushes |-> n,
     gone |-> gone]

\* FileStorage.save called from a command that printed lines so far
SaveOutcome(objs, f, lines, gone) ==
    IF SaveRaises(objs)
    THEN Outcome(objs, f, lines, "TypeError", 1, gone)
    ELSE Outcome(objs, StorageSave(objs), lines, "none", 1, gone)

\* HBNBCommand.do_show(s)
show_outcome(objs, f, s) ==
    LET sp == ShlexSplit(s)
        v == operate_on_entity_if_valid(objs, sp.toks)
    IN  IF ~sp.ok
        THEN Outcome(objs, f, <<>>, "ValueError", 0, {})
        ELSE IF ~v.ok
             THEN Outcome(objs, f, v.out, "none", 0, {})
             ELSE Outcome(objs, f, <<ToDisplayString(objs[v.key])>>,
                          "none", 0, {})

\* HBNBCommand.do_destroy(s)
destroy_outcome(objs, f, s) ==
    LET sp == ShlexSplit(s)
        v == operate_on_entity_if_valid(objs, sp.toks)
    IN  IF ~sp.ok
        THEN Outcome(objs, f, <<>>, "ValueError", 0, {})
        ELSE IF ~v.ok
             THEN Outcome(objs, f, v.out, "none", 0, {})
             ELSE SaveOutcome(Pop(objs, v.key), f, <<>>, {v.key})

\* HBNBCommand.do_update(s)
update_outcome(objs, f, s) ==
    LET sp == ShlexSplit(s)
        v == operate_on_entity_if_valid(objs, sp.toks)
    IN  IF ~sp.ok
        THEN Outcome(objs, f, <<>>, "ValueError", 0, {})
        ELSE IF ~v.ok
             THEN Outcome(objs, f, v.out, "none", 0, {})
             ELSE LET u == update_object_attribute(objs, v.key, sp.toks)
                  IN  IF ~u.changed
                      THEN Outcome(objs, f, u.out, "none", 0, {})
                      ELSE SaveOutcome(u.objects, f, u.out, {})

\* k.startswith(prefix)
StartsWith(k, prefix) ==
    /\ Len(k) >= Len(prefix)
    /\ SubSeq(k, 1, Len(prefix)) = prefix

\* a variant that keeps every entry whatever its key
filter_by_prefix_All(dictionary, prefix) == dictionary

\* HBNBCommand.__filter_by_prefix
filter_by_prefix(dictionary, prefix) ==
    [k \in {k \in DOMAIN dictionary : StartsWith(k, prefix)} |->
        dictionary[k]]

\* HBNBCommand._get_all up to shlex.split: some is FALSE where it returns
\* None, out is the diagnostic has_valid_class printed
get_all(objs, args) ==
    IF Len(args) > 0
    THEN LET c == has_valid_class(args)
         IN  IF c.ok
             THEN [some |-> TRUE, dic |-> filter_by_prefix(objs, args[1]),
                   out |-> <<>>]
             ELSE [some |-> FALSE, dic |-> EmptyDict, out |-> c.out]
    ELSE [some |-> TRUE, dic |-> objs, out |-> <<>>]

\* print([str(entity) for entity in dic.values()]): one printed list; the
\* order of a dict's values is left out, the list is the display strings
\* with the number of times each occurs
ListLine(dic) ==
    LET strs == {ToDisplayString(dic[k]) : k \in DOMAIN dic}
    IN  [print |-> "list",
         items |-> [d \in strs |->
                      Cardinality({k \in DOMAIN dic :
                                      ToDisplayString(dic[k]) = d})]]

\* HBNBCommand.do_all(s): "if dic := self._get_all(s): print([...])"
all_outcome(objs, f, s) ==
    LET sp == ShlexSplit(s)
        g == get_all(objs, sp.toks)
    IN  IF ~sp.ok
        THEN Outcome(objs, f, <<>>, "ValueError", 0, {})
        ELSE IF g.some /\ DOMAIN g.dic # {}
             THEN Outcome(objs, f, g.out \o <<ListLine(g.dic)>>, "none", 0, {})
             ELSE Outcome(objs, f, g.out, "none", 0, {})

\* print(len(dic))
CountLine(n) == Line(<<ToString(n)>>)

\* HBNBCommand._do_count(s): "if dic: print(len(dic))"
count_outcome(objs, f, s) ==
    LET sp == ShlexSplit(s)
        g == get_all(objs, sp.toks)
    IN  IF ~sp.ok
        THEN Outcome(objs, f, <<>>, "ValueError", 0, {})
        ELSE IF g.some /\ DOMAIN g.dic # {}
             THEN Outcome(objs, f,
                          g.out \o <<CountLine(Cardinality(DOMAIN g.dic))>>,
                          "none", 0, {})
             ELSE Outcome(objs, f, g.out, "none", 0, {})

----------------------------------------------------------------------------
(* console.py: precmd and the dotted call syntax *)

LP == "("
RP == ")"
COMMA == ","
LB == "{"
RB == "}"
COLON == ":"

Punctuation == {SP, DQ, SQ, DOT, LP, RP, COMMA, LB, RB, COLON}

\* the words of the model that hold a character outside [a-zA-Z0-9]
UnderscoreWords == {"created_at", "updated_at", "__class__", "to_dict"}

\* the symbol is made of characters in [a-zA-Z0-9] only
IsAlnum(sym) == sym \notin Punctuation \cup UnderscoreWords

\* the index of the first occurrence of sym in seq at or after from, 0 if
\* there is none
RECURSIVE IndexFrom(_, _, _)
IndexFrom(seq, sym, from) ==
    IF from > Len(seq) THEN 0
    ELSE IF seq[from] = sym THEN from
    ELSE IndexFrom(seq, sym, from + 1)

IndexOf(seq, sym) == IndexFrom(seq, sym, 1)

\* line.split(maxsplit=0)[0]: the line without its leading whitespace
RECURSIVE LStrip(_)
LStrip(line) ==
    IF line # <<>> /\ Head(line) = SP THEN LStrip(Tail(line)) ELSE line

\* the verbs of special_cmds_pattern
special_cmds == {"all", "show", "destroy", "update", "count"}

\* special_cmds_pattern.fullmatch(special_line), the pattern being
\* ([a-zA-Z0-9])*\.(all|show|destroy|update|count)\(.*?\)$
special_cmds_match(special_line) ==
    LET d == IndexOf(special_line, DOT)
    IN  /\ d > 0
        /\ \A i \in 1 .. (d - 1) : IsAlnum(special_line[i])
        /\ Len(special_line) >= d + 3
        /\ special_line[d + 1] \in special_cmds
        /\ special_line[d + 2] = LP
        /\ special_line[Len(special_line)] = RP

\* __parse_part(line, cls_pattern, "cls"): the text before the first "."
parse_cls(line) == SubSeq(line, 1, IndexOf(line, DOT) - 1)

\* __parse_part(line, cmd_pattern, "cmd"): on a line special_cmds_pattern
\* matches, the leftmost match of .[a-zA-Z]*\( starts at the "." and the
\* part is the verb before the first "("
parse_cmd(line) == line[IndexOf(line, LP) - 1]

\* __parse_part(line, args_pattern, "args"): the text between the first "("
\* and the ")" that ends the line
parse_args(line) == SubSeq(line, IndexOf(line, LP) + 1, Len(line) - 1)

\* " ".join(args.split(", ")): each ", " becomes " "
RECURSIVE formatted_args(_)
formatted_args(args) ==
    IF args = <<>> THEN <<>>
    ELSE IF Len(args) >= 2 /\ args[1] = COMMA /\ args[2] = SP
         THEN <<SP>> \o formatted_args(SubSeq(args, 3, Len(args)))
         ELSE <<Head(args)>> \o formatted_args(Tail(args))

\* args.split(',')[0]
split_comma0(args) ==
    IF IndexOf(args, COMMA) = 0 THEN args
    ELSE SubSeq(args, 1, IndexOf(args, COMMA) - 1)

\* cmd.Cmd.parseline: the argument of the command, line[i:].strip(), for a
\* line that begins with the verb
RECURSIVE RStrip(_)
RStrip(line) ==
    IF line # <<>> /\ line[Len(line)] = SP
    THEN RStrip(SubSeq(line, 1, Len(line) - 1))
    ELSE line

Strip(line) == RStrip(LStrip(line))

\* the index b of a "{" that follows a "," and whitespace only
AfterComma(args, b) ==
    /\ args[b] = LB
    /\ \E c \in 1 .. (b - 1) :
          /\ args[c] = COMMA
          /\ \A i \in (c + 1) .. (b - 1) : args[i] = SP

\* multi_updates_ptrn.search(args), the pattern being (?<=,)\s*\{.*?\}:
\* found is FALSE where there is no match, raw is match.group().strip()
multi_updates_search(args) ==
    LET starts == {b \in 1 .. Len(args) :
                      AfterComma(args, b) /\ IndexFrom(args, RB, b) > 0}
    IN  IF starts = {}
        THEN [found |-> FALSE, raw |-> <<>>]
        ELSE LET b == CHOOSE b \in starts : \A b2 \in starts : b <= b2
             IN  [found |-> TRUE,
                  raw |-> SubSeq(args, b, IndexFrom(args, RB, b))]

\* the words that are decimal integer literals
IntRange == 0 .. 99

IsIntWord(sym) == \E n \in IntRange : sym = ToString(n)

IntOfWord(sym) == CHOOSE n \in IntRange : sym = ToString(n)

\* the first index at or after i that holds no whitespace
RECURSIVE SkipSp(_, _)
SkipSp(raw, i) ==
    IF i <= Len(raw) /\ raw[i] = SP THEN SkipSp(raw, i + 1) ELSE i

\* a string or integer literal at index i: the value and the index after it
Atom(raw, i) ==
    IF i > Len(raw)
    THEN [ok |-> FALSE, v |-> None, next |-> i]
    ELSE IF raw[i] \in {DQ, SQ}
         THEN LET q == IndexFrom(raw, raw[i], i + 1)
              IN  IF q = 0
                  THEN [ok |-> FALSE, v |-> None, next |-> i]
                  ELSE [ok |-> TRUE, v |-> Str(SubSeq(raw, i + 1, q - 1)),
                        next |-> q + 1]
         ELSE IF IsIntWord(raw[i])
              THEN [ok |-> TRUE, v |-> PyInt(IntOfWord(raw[i])), next |-> i + 1]
              ELSE [ok |-> FALSE, v |-> None, next |-> i]

\* dict insertion: a key already present keeps its place and takes the value
DictPut(pairs, k, v) ==
    IF \E i \in 1 .. Len(pairs) : pairs[i][1] = k
    THEN [i \in 1 .. Len(pairs) |->
             IF pairs[i][1] = k THEN <<k, v>> ELSE pairs[i]]
    ELSE Append(pairs, <<k, v>>)

\* the entries of a brace literal from index i on: kind is "dict" for
\* key: value entries, "set" for bare values, "error" where the text is no
\* literal; a comma may precede the closing brace
RECURSIVE Entries(_, _, _, _)
Entries(raw, i, kind, pairs) ==
    LET k == Atom(raw, SkipSp(raw, i))
        j == SkipSp(raw, k.next)
    IN  IF kind # "" /\ SkipSp(raw, i) = Len(raw)
        THEN [kind |-> kind, pairs |-> pairs]
        ELSE IF ~k.ok \/ j > Len(raw)
        THEN [kind |-> "error", pairs |-> <<>>]
        ELSE IF raw[j] = COLON
             THEN LET v == Atom(raw, SkipSp(raw, j + 1))
                      e == SkipSp(raw, v.next)
                  IN  IF ~v.ok \/ e > Len(raw) \/ kind = "set"
                      THEN [kind |-> "error", pairs |-> <<>>]
                      ELSE IF raw[e] = RB /\ e = Len(raw)
                           THEN [kind |-> "dict",
                                 pairs |-> DictPut(pairs, k.v, v.v)]
                           ELSE IF raw[e] = COMMA
                                THEN Entries(raw, e + 1, "dict",
                                             DictPut(pairs, k.v, v.v))
                                ELSE [kind |-> "error", pairs |-> <<>>]
             ELSE IF kind = "dict"
                  THEN [kind |-> "error", pairs |-> <<>>]
                  ELSE IF raw[j] = RB /\ j = Len(raw)
                       THEN [kind |-> "set", pairs |-> <<>>]
                       ELSE IF raw[j] = COMMA
                            THEN Entries(raw, j + 1, "set", pairs)
                            ELSE [kind |-> "error", pairs |-> <<>>]

\* ast.literal_eval(raw_dict) on a text that starts with "{" and ends with
\* its first "}"
literal_eval(raw_dict) ==
    IF SkipSp(raw_dict, 2) = Len(raw_dict)
    THEN [kind |-> "dict", pairs |-> <<>>]
    ELSE Entries(raw_dict, 2, "", <<>>)

\* the message of the except clause: one print of two lines
MultiUpdateDiag ==
    Line(<<"** Error: The multiple update commandis not used correctly. ** ",
           "<class name>.update(<id>, <dictionary representation>)">>)

\* the loop "for k, v in parsed_dict.items(): self.do_update(...)" from the
\* i-th entry on, inside the try: an exception of do_update ends the loop
\* and prints the message
RECURSIVE multi_update(_, _, _, _, _)
multi_update(o, cls, object_id, pairs, i) ==
    IF i > Len(pairs)
    THEN o
    ELSE LET line == cls \o <<SP>> \o object_id \o <<SP>>
                         \o PyStr(pairs[i][1]) \o <<SP>> \o PyStr(pairs[i][2])
             u == update_outcome(o.objects, o.file, line)
         IN  IF u.err # "none"
             THEN Outcome(u.objects, u.file,
                          o.out \o u.out \o <<MultiUpdateDiag>>, "none",
                          o.flushes + u.flushes, {})
             ELSE multi_update(Outcome(u.objects, u.file, o.out \o u.out,
                                       "none", o.flushes + u.flushes, {}),
                               cls, object_id, pairs, i + 1)

\* cmd.Cmd.onecmd(parsed) for the verbs _parse_special_command returns a
\* canonical line for: do_<verb>(arg)
onecmd(objs, f, verb, arg) ==
    CASE verb = "all" -> all_outcome(objs, f, arg)
      [] verb = "show" -> show_outcome(objs, f, arg)
      [] verb = "destroy" -> destroy_outcome(objs, f, arg)
      [] OTHER -> update_outcome(objs, f, arg)

\* HBNBCommand._parse_special_command(line) followed by the dispatch of the
\* line it returns (the empty line does nothing)
parse_special_command(objs, f, line) ==
    LET cls == parse_cls(line)
        command == parse_cmd(line)
        args == parse_args(line)
        match == multi_updates_search(args)
    IN  IF command = "update" /\ match.found
        THEN LET parsed_dict == literal_eval(match.raw)
             IN  IF parsed_dict.kind = "dict"
                 THEN multi_update(Outcome(objs, f, <<>>, "none", 0, {}),
                                   cls, split_comma0(args),
                                   parsed_dict.pairs, 1)
                 ELSE Outcome(objs, f, <<MultiUpdateDiag>>, "none", 0, {})
        ELSE IF command = "count"
             THEN count_outcome(objs, f, cls)
             ELSE onecmd(objs, f, command,
                         Strip(cls \o <<SP>> \o formatted_args(args)))

\* one turn of cmdloop on a line precmd rewrites: precmd, then onecmd; an
\* exception that reaches cmdloop ends the process
precmd(line) ==
    /\ running
    /\ special_cmds_match(LStrip(line))
    /\ \E o \in {parse_special_command(objects, file, LStrip(line))} :
           /\ objects' = o.objects
           /\ file' = o.file
           /\ out' = o.out
           /\ err' = o.err
           /\ running' = (o.err = "none")
           /\ flushes' = o.flushes
           /\ destroyed' = destroyed \cup o.gone
    /\ op' = Cmd("dotted", line)
    /\ UNCHANGED <<clock, uuids, ent, entKey>>

\* HBNBCommand.do_all as a turn of cmdloop
do_all(s) ==
    /\ running
    /\ \E o \in {all_outcome(objects, file, s)} :
           /\ out' = o.out
           /\ err' = o.err
           /\ running' = (o.err = "none")
    /\ flushes' = 0
    /\ op' = Cmd("all", s)
    /\ UNCHANGED <<objects, file, clock, uuids, destroyed, ent, entKey>>

----------------------------------------------------------------------------
(* The process: start-up (models/__init__.py) and direct storage calls *)

\* models/__init__.py: storage = FileStorage(); storage.reload() in a fresh
\* process.  An exception of reload ends the process at import time.
Restart ==
    LET r == StorageReload(EmptyDict, file)
    IN  /\ objects' = r.objects
        /\ running' = (r.err = "none")
        /\ op' = Cmd("restart", <<>>)
        /\ out' = r.out
        /\ err' = r.err
        /\ flushes' = 0
        /\ UNCHANGED <<file, clock, uuids, destroyed, ent, entKey>>

\* storage.reload() called on the running store
Reload ==
    /\ running
    /\ LET r == StorageReload(objects, file)
       IN  /\ objects' = r.objects
           /\ op' = Cmd("reload", <<>>)
           /\ out' = r.out
           /\ err' = r.err
    /\ flushes' = 0
    /\ UNCHANGED <<file, clock, uuids, running, destroyed, ent, entKey>>

\* storage.save() called on the running store
Save ==
    /\ running
    /\ Flush(objects)
    /\ op' = Cmd("save", <<>>)
    /\ out' = <<>>
    /\ UNCHANGED <<objects, clock, uuids, destroyed, ent, entKey>>

----------------------------------------------------------------------------
(* The lines a user types *)

Quoted(t) == <<DQ>> \o t \o <<DQ>>

\* a line whose quotation is never closed
Unbalanced == <<DQ, "x">>

\* the class-name and id tokens that address a composite key
RefOf(key) ==
    LET c == SplitDot0(key)
    IN  <<c, SubSeq(key, Len(c) + 2, Len(key))>>

StoredRefs == {RefOf(key) : key \in DOMAIN objects}
GoneRefs == {RefOf(key) : key \in destroyed}
BadRefs == {<<(<<"BaseModel">>), (<<"zz">>)>>}

RefLine(r) == r[1] \o <<SP>> \o r[2]

\* field name and value text of the update lines of a console session
IdValues == {<<ID, Quoted(<<"x", SP, "y">>)>>}

\* field name and value text of the update lines that set each sort of field
FieldValues ==
    { <<ID, Quoted(<<"x", SP, "y">>)>>,
      <<(<<"name">>), Quoted(<<"x", SP, "y">>)>>,
      <<CREATED_AT, Quoted(<<"x", SP, "y">>)>>,
      <<CLASS, Quoted(<<"x", SP, "y">>)>>,
      <<(<<"to_dict">>), (<<"x">>)>> }

CreateLines ==
    {<<>>, <<"Foo">>, <<"BaseModel">>, <<"User">>}

\* lines that fail a check before the id is looked up
KindLines == {<<>>, <<"Foo">>, <<"BaseModel">>}

EntityLines ==
    KindLines \cup {RefLine(r) : r \in StoredRefs \cup GoneRefs \cup BadRefs}

UpdateLines ==
    KindLines
        \cup {Unbalanced}
        \cup {RefLine(r) : r \in StoredRefs \cup BadRefs}
        \cup {RefLine(r) \o <<SP, "name">> : r \in StoredRefs}
        \cup {RefLine(r) \o <<SP>> \o fv[1] \o <<SP>> \o fv[2] :
                 r \in StoredRefs, fv \in IdValues}

FieldLines ==
    {Unbalanced}
        \cup {RefLine(r) \o <<SP>> \o fv[1] \o <<SP>> \o fv[2] :
                 r \in StoredRefs, fv \in FieldValues}

----------------------------------------------------------------------------
(* The console session *)

NoEntity == [cls |-> "", dict |-> EmptyDict]

Init ==
    /\ objects = EmptyDict
    /\ file = NoFile
    /\ clock = 1
    /\ uuids = 0
    /\ running = TRUE
    /\ op = Cmd("start", <<>>)
    /\ out = <<>>
    /\ err = "none"
    /\ destroyed = {}
    /\ flushes = 0
    /\ ent = NoEntity
    /\ entKey = <<>>

Create == \E s \in CreateLines : do_create(s)
Show == \E s \in EntityLines : do_show(s)
Destroy == \E s \in EntityLines : do_destroy(s)
Update == \E s \in UpdateLines : do_update(s)

Next ==
    \/ Create
    \/ Show
    \/ Destroy
    \/ Update
    \/ Restart
    \/ Reload
    \/ Save

Spec == Init /\ [][Next]_vars

\* a session of create and update commands that set each sort of field
UpdateField == \E s \in FieldLines : do_update(s)

NextUpdate ==
    \/ Create
    \/ UpdateField

SpecUpdate == Init /\ [][NextUpdate]_vars

----------------------------------------------------------------------------
(* A session of dotted calls *)

\* the texts a1, ..., an joined by sep
RECURSIVE Join(_, _)
Join(texts, sep) ==
    IF texts = <<>> THEN <<>>
    ELSE IF Len(texts) = 1 THEN texts[1]
    ELSE texts[1] \o sep \o Join(Tail(texts), sep)

\* a dotted call: the kind token, the verb and the argument texts
Call(kind, verb, args) == [kind |-> kind, verb |-> verb, args |-> args]

\* the line "K.verb(a1, ..., an)"
DottedText(c) ==
    c.kind \o <<DOT, c.verb, LP>> \o Join(c.args, <<COMMA, SP>>) \o <<RP>>

\* the argument texts of the dotted update calls after the id
UpdateArgs ==
    { <<>>,
      <<Quoted(<<"name">>), Quoted(<<"x", COMMA, SP, "y">>)>> }

\* the kind tokens of the dotted calls of all
DottedKinds == {<<>>, <<"Foo">>, <<"BaseModel">>}

KindTokens == {<<>>, <<"Foo">>, <<"BaseModel">>, <<"User">>, <<"State">>}

\* the dotted calls, bulk updates aside, a user makes in the current state
DottedCalls ==
    {Call(k, "all", <<>>) : k \in DottedKinds}
        \cup {Call(r[1], v, <<Quoted(r[2])>>) :
                 r \in StoredRefs \cup BadRefs, v \in {"show", "destroy"}}
        \cup {Call(r[1], "show", <<r[2]>>) : r \in StoredRefs}
        \cup {Call(r[1], "update", <<Quoted(r[2])>> \o a) :
                 r \in StoredRefs \cup BadRefs, a \in UpdateArgs}

\* the text of a value inside a brace literal
LiteralAtom(x) == IF x.ty = "str" THEN Quoted(x.v) ELSE PyStr(x)

\* the text "k1: v1, ..., kn: vn" of the entries of a brace literal
RECURSIVE LiteralEntries(_)
LiteralEntries(pairs) ==
    IF pairs = <<>> THEN <<>>
    ELSE LiteralAtom(pairs[1][1]) \o <<COLON, SP>> \o LiteralAtom(pairs[1][2])
             \o (IF Len(pairs) = 1 THEN <<>>
                 ELSE <<COMMA, SP>> \o LiteralEntries(Tail(pairs)))

\* the brace literal of a sequence of key/value pairs
LiteralText(pairs) == <<LB>> \o LiteralEntries(pairs) \o <<RB>>

\* the key/value pairs of the bulk updates
PairLists ==
    { << <<Str(<<"name">>), Str(<<"x", SP, "y">>)>> >>,
      << <<Str(<<"name">>), PyInt(1)>>,
         <<Str(<<"b">>), Str(<<"it", SQ, "s">>)>> >> }

\* brace texts that are no dict literal: a set, and an entry with no value
MalformedLiterals ==
    { <<LB, "1", COMMA, SP, "2", RB>>,
      <<LB, DQ, "a", DQ, COLON, SP, RB>> }

\* the line K.update("id", <brace text>)
BulkText(r, brace) ==
    r[1] \o <<DOT, "update", LP>> \o Quoted(r[2]) \o <<COMMA, SP>> \o brace
        \o <<RP>>

DottedLines ==
    {DottedText(c) : c \in DottedCalls}
        \cup {BulkText(r, LiteralText(ps)) :
                 r \in StoredRefs \cup BadRefs, ps \in PairLists}
        \cup {BulkText(r, b) : r \in StoredRefs, b \in MalformedLiterals}

\* the create commands that succeed
CreateStored == \E s \in {<<"BaseModel">>, <<"User">>} : do_create(s)
Dotted == \E s \in DottedLines : precmd(s)

NextDotted ==
    \/ CreateStored
    \/ Dotted

SpecDotted == Init /\ [][NextDotted]_vars

----------------------------------------------------------------------------
(* A session of updates of plain fields *)

\* field name and value text of the update lines that set fields of the
\* user's own
PlainValues ==
    { <<(<<"name">>), Quoted(<<"x", SP, "y">>)>>,
      <<(<<"age">>), (<<"x">>)>> }

PlainLines ==
    {Unbalanced}
        \cup {RefLine(r) \o <<SP>> \o fv[1] : r \in StoredRefs, fv \in PlainValues}
        \cup {RefLine(r) \o <<SP>> \o fv[1] \o <<SP>> \o fv[2] :
                 r \in StoredRefs \cup BadRefs, fv \in PlainValues}

UpdatePlain == \E s \in PlainLines : do_update(s)

NextPlain ==
    \/ CreateStored
    \/ UpdatePlain

SpecPlain == Init /\ [][NextPlain]_vars

----------------------------------------------------------------------------
(* A session of create, destroy, all and count *)

AllLines == KindTokens

CountLines == {k \o <<DOT, "count", LP, RP>> : k \in KindTokens}

DestroyLines == {RefLine(r) : r \in StoredRefs}

All == \E s \in AllLines : do_all(s)
Count == \E s \in CountLines : precmd(s)
DestroyStored == \E s \in DestroyLines : do_destroy(s)

NextAll ==
    \/ Create
    \/ DestroyStored
    \/ All
    \/ Count

SpecAll == Init /\ [][NextAll]_vars

----------------------------------------------------------------------------
(* A session of the commands that only read *)

\* the names n for which HBNBCommand has a method do_n
Verbs == {"create", "show", "destroy", "all", "update", "quit", "EOF", "help"}

\* what cmd.Cmd.default prints for a line it cannot dispatch
UnknownSyntax(line) == Line(<<"*** Unknown syntax: ">> \o line)

\* HBNBCommand.emptyline: a turn of cmdloop for a line that is empty once
\* stripped; precmd leaves the line alone and emptyline does nothing
emptyline(line) ==
    /\ running
    /\ ~special_cmds_match(LStrip(line))
    /\ Strip(line) = <<>>
    /\ Printed("emptyline", line, <<>>)

\* a turn of cmdloop for a line that precmd leaves alone and whose first
\* word names no do_ method of HBNBCommand: the inherited default reports
\* the line
default(line) ==
    /\ running
    /\ ~special_cmds_match(LStrip(line))
    /\ Strip(line) # <<>>
    /\ Head(Strip(line)) \notin Verbs
    /\ Printed("default", line, <<UnknownSyntax(Strip(line))>>)

BlankLines == {<<>>, <<SP>>, <<SP, SP>>}

\* lines with a verb the console does not have, one in the dotted form,
\* one that wraps a dotted destroy of a stored entity
UnknownLines ==
    { <<"foo">>, <<"foo", SP, "bar">>, <<"User", DOT, "foo", LP, RP>> }
        \cup {<<"foo", SP>> \o r[1] \o <<DOT, "destroy", LP>> \o r[2] \o <<RP>> :
                 r \in StoredRefs}

\* the show lines: those that fail a check, one with an unclosed quote, and
\* those that name a stored entity
ShowLines ==
    KindLines
        \cup {Unbalanced}
        \cup {RefLine(r) : r \in StoredRefs \cup BadRefs}

\* the dotted calls of show, all and count
ReadCalls ==
    {Call(k, v, <<>>) : k \in KindTokens, v \in {"all", "count"}}
        \cup {Call(r[1], "show", <<Quoted(r[2])>>) :
                 r \in StoredRefs \cup BadRefs}

ShowStored == \E s \in ShowLines : do_show(s)
DottedRead == \E c \in ReadCalls : precmd(DottedText(c))
EmptyLine == \E s \in BlankLines : emptyline(s)
UnknownVerb == \E s \in UnknownLines : default(s)

NextRead ==
    \/ CreateStored
    \/ ShowStored
    \/ All
    \/ DottedRead
    \/ EmptyLine
    \/ UnknownVerb

SpecRead == Init /\ [][NextRead]_vars

----------------------------------------------------------------------------
(* Direct use of the BaseModel API, as the unit tests do *)

\* the assignments "obj.<name> = <value>" the API user makes
ApiAssignments ==
    { <<ID, PyInt(7)>>,
      <<(<<"name">>), None>>,
      <<CREATED_AT, Str(IsoFormat(0))>>,
      <<CREATED_AT, Str(<<"x">>)>> }

\* assignments to the reserved fields: values that are no string, texts
\* that are and are not ISO-8601, a datetime and a date
ReservedAssignments ==
    { <<ID, PyInt(7)>>,
      <<CREATED_AT, Str(<<"x">>)>>,
      <<CREATED_AT, Dt(0)>>,
      <<UPDATED_AT, PyDate(0)>> }

\* assignments made before a save: a field of the user's, and an
\* updated_at later than the clock will reach
SaveAssignments ==
    { <<(<<"name">>), Str(<<"x">>)>>,
      <<UPDATED_AT, Str(IsoFormat(Future))>> }

ApiClasses == {"BaseModel", "User"}

\* m restricted to the keys in S
Restrict(m, S) == [k \in S |-> m[k]]

\* is_new_instance = not bool(len(kwargs))
is_new_instance(kwargs) == DOMAIN kwargs = {}

\* obj = cls(**kwargs): BaseModel.__init__, both branches
ApiConstruct(name, cls, kwargs) ==
    /\ IF is_new_instance(kwargs)
       THEN /\ uuids < MaxApiNew
            /\ LET e == NewInstance(cls, clock, Uuid4(uuids + 1))
                   reg == StorageNew(objects, e)
               IN  /\ reg.ok
                   /\ objects' = reg.objects
                   /\ ent' = e
                   /\ entKey' = StoringKey(cls, PyStr(e.dict[ID]))
            /\ out' = <<>>
            /\ clock' = clock + 1
            /\ uuids' = uuids + 1
       ELSE /\ LET r == InitFromKwargs(cls, kwargs)
               IN  /\ ent' = r.e
                   /\ out' = r.out
            /\ entKey' = <<>>
            /\ UNCHANGED <<objects, clock, uuids>>
    /\ op' = Cmd(name, <<cls>>)
    /\ err' = "none"
    /\ flushes' = 0
    /\ UNCHANGED <<file, running, destroyed>>

\* obj = cls()
ApiNew == \E cls \in ApiClasses : ApiConstruct("new", cls, EmptyDict)

\* obj.<name> = <value>: BaseModel.__setattr__ on the held entity, which
\* the store sees when it holds the same object
ApiAssign(assignments) ==
    /\ ent.cls \in supported_classes
    /\ \E a \in assignments :
          LET r == SetAttr(ent, a[1], a[2])
          IN  /\ ent' = r.e
              /\ out' = r.out
              /\ objects' = IF entKey # <<>>
                            THEN [objects EXCEPT ![entKey] = r.e]
                            ELSE objects
              /\ op' = Cmd("setattr", a[1])
    /\ err' = "none"
    /\ flushes' = 0
    /\ UNCHANGED <<file, clock, uuids, running, destroyed, entKey>>

ApiSetAttr == ApiAssign(ApiAssignments)

\* obj2 = cls(**obj.to_dict())
ApiRoundTrip ==
    /\ ent.cls \in supported_classes
    /\ ApiConstruct("roundtrip", ent.cls, to_dict(ent))

\* obj2 = cls(**dic) where dic is obj.to_dict() with some entries deleted,
\* or a field map with no entry at all
ApiFromMap ==
    \/ /\ ent # NoEntity
       /\ \E S \in SUBSET (DOMAIN to_dict(ent)) :
             /\ S # DOMAIN to_dict(ent)
             /\ ApiConstruct("from_map", ent.cls, Restrict(to_dict(ent), S))
    \/ \E cls \in ApiClasses : ApiConstruct("from_map", cls, EmptyDict)

\* the field maps of "obj = cls(**kwargs)" written by hand
ApiKwargs ==
    { (ID :> PyInt(89)),
      (ID :> PyInt(89)) @@ (CREATED_AT :> Str(<<"x">>))
          @@ (UPDATED_AT :> Str(IsoFormat(0))),
      (ID :> PyInt(89)) @@ (CLASS :> Str(<<"User">>)) }

\* obj = BaseModel(**kwargs) with a field map that no to_dict produced
ApiFromKwargs ==
    \E kwargs \in ApiKwargs : ApiConstruct("from_kwargs", "BaseModel", kwargs)

\* obj.save(): BaseModel.save on the held entity, one datetime.now() and
\* one FileStorage.save
ApiSave ==
    /\ ent # NoEntity
    /\ clock <= MaxApiNew + MaxSaves
    /\ LET r == SetAttr(ent, UPDATED_AT, Dt(clock))
           objs == IF entKey # <<>>
                   THEN [objects EXCEPT ![entKey] = r.e]
                   ELSE objects
       IN  /\ ent' = r.e
           /\ objects' = objs
           /\ out' = r.out
           /\ Flush(objs)
    /\ clock' = clock + 1
    /\ op' = Cmd("save", <<ent.cls>>)
    /\ UNCHANGED <<uuids, destroyed, entKey>>

NextEntity ==
    \/ ApiNew
    \/ ApiSetAttr
    \/ ApiRoundTrip
    \/ ApiFromMap

SpecEntity == Init /\ [][NextEntity]_vars

\* entities constructed, changed and saved through the API
ApiSetBeforeSave == ApiAssign(SaveAssignments)

NextSave ==
    \/ ApiNew
    \/ ApiFromKwargs
    \/ ApiSetBeforeSave
    \/ ApiSave

SpecSave == Init /\ [][NextSave]_vars

\* objects that are no BaseModel, as the tests of FileStorage.new build
\* them: one without an id, one whose __class__ is the number 100
ForeignObjects ==
    { [cls |-> "TestNoIdObject", dict |-> EmptyDict],
      [cls |-> "", dict |-> (ID :> Str(<<"123">>))] }

\* obj = TestNoIdObject() or TestInvalidObject()
ApiForeign ==
    /\ \E o \in ForeignObjects :
          /\ ent' = o
          /\ op' = Cmd("foreign", <<o.cls>>)
    /\ entKey' = <<>>
    /\ out' = <<>>
    /\ err' = "none"
    /\ flushes' = 0
    /\ UNCHANGED <<objects, file, clock, uuids, running, destroyed>>

\* storage.new(obj) on the held object
ApiRegister ==
    /\ ent # NoEntity
    /\ \E reg \in {StorageNew(objects, ent)} :
          /\ objects' = reg.objects
          /\ err' = IF reg.ok THEN "none" ELSE "TypeError"
          /\ entKey' = IF reg.ok
                       THEN StoringKey(ent.cls, PyStr(ent.dict[ID]))
                       ELSE entKey
    /\ op' = Cmd("register", <<ent.cls>>)
    /\ out' = <<>>
    /\ flushes' = 0
    /\ UNCHANGED <<file, clock, uuids, running, destroyed, ent>>

NextRegister ==
    \/ ApiNew
    \/ ApiFromKwargs
    \/ ApiRoundTrip
    \/ ApiSetBeforeSave
    \/ ApiForeign
    \/ ApiRegister

SpecRegister == Init /\ [][NextRegister]_vars

\* the update lines that set a reserved field of a stored entity
ReservedValues ==
    { <<ID, (<<"7">>)>>,
      <<CREATED_AT, (<<"x">>)>>,
      <<CLASS, (<<"User">>)>> }

ReservedLines ==
    {RefLine(r) \o <<SP>> \o fv[1] \o <<SP>> \o fv[2] :
        r \in StoredRefs, fv \in ReservedValues}

UpdateReserved == \E s \in ReservedLines : do_update(s)
ApiSetReserved == ApiAssign(ReservedAssignments)

\* the reserved fields set at reconstruction, by assignment and by the
\* update command
NextReserved ==
    \/ CreateStored
    \/ UpdateReserved
    \/ ApiFromKwargs
    \/ ApiSetReserved

SpecReserved == Init /\ [][NextReserved]_vars

----------------------------------------------------------------------------
(* The backing file edited from outside the process, as the storage tests  *)
(* do when they supply the text reload reads                               *)

\* a record as it stands in the file: field name -> JSON value
JsonRecord(id_text, name_text) ==
    (ID :> JsonEnc(Str(id_text))) @@ (<<"name">> :> JsonEnc(Str(name_text)))

\* the records written from outside: one of a kind no registry knows, one
\* of a kind FileStorage.__classes knows, and a changed record for a key
\* the store holds
ExternalRecords ==
    { <<StoringKey("Foo", <<"f1">>), JsonRecord(<<"f1">>, <<"ext">>)>>,
      <<StoringKey("BaseModel", <<"b1">>), JsonRecord(<<"b1">>, <<"ext">>)>> }
        \cup {<<key, JsonRecord(RefOf(key)[2], <<"ext">>)>> :
                 key \in DOMAIN objects}

EditFile ==
    /\ \E rec \in ExternalRecords :
          file' = JsonFile((rec[1] :> rec[2]) @@ file.text)
    /\ op' = Cmd("edit", <<>>)
    /\ out' = <<>>
    /\ err' = "none"
    /\ flushes' = 0
    /\ UNCHANGED <<objects, clock, uuids, running, destroyed, ent, entKey>>

NextEnv ==
    \/ Create
    \/ EditFile
    \/ Reload
    \/ Restart

SpecEnv == Init /\ [][NextEnv]_vars

----------------------------------------------------------------------------
(* Properties *)

\* the kind and id an entity answers with
KindIdOf(e) ==
    <<e.cls, IF ID \in DOMAIN e.dict THEN e.dict[ID] ELSE None>>

\* the keys of the records in the backing file
FileKeys == IF file.st = "json" THEN DOMAIN file.text ELSE {}


\* C1: in every reachable state of the store each key is "<Kind>.<id>"
\* built from the kind and the current id of the entity it maps to, and no
\* two entries hold the same (kind, id) pair.
C1_KeysDerivedFromEntity ==
    /\ \A key \in DOMAIN objects :
          /\ ID \in DOMAIN objects[key].dict
          /\ key = StoringKey(objects[key].cls,
                              PyStr(objects[key].dict[ID]))
    /\ \A k1, k2 \in DOMAIN objects :
          KindIdOf(objects[k1]) = KindIdOf(objects[k2]) => k1 = k2

\* C2: a restart of a running session succeeds and yields a store with the
\* same composite keys, each mapped to an entity of the same kind with the
\* same to_dict() as before the restart.
C2_DurableAcrossRestart ==
    [][(running /\ op'.cmd = "restart") =>
          /\ err' = "none"
          /\ DOMAIN objects' = DOMAIN objects
          /\ \A key \in DOMAIN objects :
                /\ key \in DOMAIN objects'
                /\ objects'[key].cls = objects[key].cls
                /\ to_dict(objects'[key]) = to_dict(objects[key])]_vars

\* C3: every kind create accepts is a kind reload reconstructs: when every
\* record of the backing file is of a kind in supported_classes, neither a
\* restart nor a reload fails with an unknown-kind error.
C3_SameRegistry ==
    (/\ op.cmd \in {"restart", "reload"}
     /\ \A key \in FileKeys : InSupportedClasses(ClsNameOf(key)))
        => err # "KeyError"

\* C4: reconstructing an entity of the same kind from to_dict(e) gives an
\* entity whose to_dict() equals to_dict(e), for e fresh, with fields
\* assigned, or itself reconstructed.
C4_RoundTrip ==
    [][op'.cmd = "roundtrip" =>
          /\ ent'.cls = ent.cls
          /\ to_dict(ent') = to_dict(ent)]_vars

\* C4 witness: a round trip of an entity with a cast id, an extra field and
\* an assigned timestamp.
C4_Witness ==
    /\ op.cmd = "roundtrip"
    /\ <<"name">> \in DOMAIN ent.dict
    /\ ID \in DOMAIN ent.dict
    /\ ent.dict[ID] = Str(<<"7">>)
    /\ CREATED_AT \in DOMAIN ent.dict
    /\ ent.dict[CREATED_AT] = Dt(0)
    /\ UPDATED_AT \in DOMAIN ent.dict

\* the backing file holds a record of a kind outside supported_classes
HasUnsupportedRecord(f) ==
    /\ f.st = "json"
    /\ \E key \in DOMAIN f.text : ~InSupportedClasses(ClsNameOf(key))

ArgsOf(o) == ShlexSplit(o.line).toks

\* the diagnostics of user-input errors
UserInputDiags ==
    {ClassNameMissing, ClassDoesntExist, InstanceIdMissing, NoInstanceFound,
     AttributeNameMissing, ValueMissing}

PrintsUserInputDiag(lines) ==
    \E i \in 1 .. Len(lines) : lines[i] \in UserInputDiags

NoDiag == Line(<<>>)

\* the composite key the first two tokens address
KeyOfArgs(args) == args[1] \o <<DOT>> \o args[2]

\* the diagnostic of the first failing check in the order the claim C7
\* fixes, NoDiag when every check passes
FirstFailing(cmd, args, objs) ==
    IF Len(args) = 0 THEN ClassNameMissing
    ELSE IF ~(Len(args[1]) = 1 /\ args[1][1] \in supported_classes)
         THEN ClassDoesntExist
    ELSE IF Len(args) = 1 THEN InstanceIdMissing
    ELSE IF KeyOfArgs(args) \notin DOMAIN objs THEN NoInstanceFound
    ELSE IF cmd = "update" /\ Len(args) = 2 THEN AttributeNameMissing
    ELSE IF cmd = "update" /\ Len(args) = 3 THEN ValueMissing
    ELSE NoDiag

\* the file f holds one JSON record per entry of objs, under the same key,
\* equal to that entity's to_dict()
FileMirrors(f, objs) ==
    /\ f.st = "json"
    /\ DOMAIN f.text = DOMAIN objs
    /\ \A key \in DOMAIN objs :
          /\ key \in DOMAIN f.text
          /\ JsonLoads(f.text)[key] = to_dict(objs[key])

\* C6: a create, show, destroy or update that prints a user-input
\* diagnostic leaves the store and the backing file as they were and does
\* not write the file.
C6_DiagnosticsHaveNoSideEffects ==
    [][(/\ op'.cmd \in {"create", "show", "destroy", "update"}
        /\ PrintsUserInputDiag(out')) =>
          /\ objects' = objects
          /\ file' = file
          /\ flushes' = 0]_vars

\* C6 witness: `create Foo` printed "** class doesn't exist **" with an
\* entity in the store.
C6_Witness ==
    /\ op = Cmd("create", <<"Foo">>)
    /\ out = <<ClassDoesntExist>>
    /\ objects # EmptyDict
    /\ flushes = 0

\* C7: show, destroy and update check kind present, kind supported, id
\* present, key stored, and update then field name present, value present;
\* the command prints exactly the diagnostic of the first failing check and
\* performs its operation only when every check passes.
C7_ValidationOrder ==
    [][(/\ op'.cmd \in {"show", "destroy", "update"}
        /\ err' = "none") =>
          LET args == ArgsOf(op')
              first == FirstFailing(op'.cmd, args, objects)
          IN  IF first # NoDiag
              THEN /\ out' = <<first>>
                   /\ objects' = objects
                   /\ flushes' = 0
              ELSE /\ ~PrintsUserInputDiag(out')
                   /\ op'.cmd = "show" =>
                         out' = <<ToDisplayString(objects[KeyOfArgs(args)])>>
                   /\ op'.cmd = "destroy" =>
                         KeyOfArgs(args) \notin DOMAIN objects'
                   /\ op'.cmd = "update" => flushes' = 1]_vars

\* C7 witness: `update BaseModel zz` with no field name and no stored
\* BaseModel.zz printed "** no instance found **".
C7_Witness ==
    /\ op = Cmd("update", <<"BaseModel", SP, "zz">>)
    /\ out = <<NoInstanceFound>>

\* C8: a successful create adds exactly one entry, under "<kind>.<id>" with
\* the id it prints, holding an entity of that kind; the entries present
\* before are unchanged and the store is written to the backing file.
C8_CreateAddsOneEntry ==
    [][(/\ op'.cmd = "create"
        /\ err' = "none"
        /\ ~PrintsUserInputDiag(out')) =>
          /\ Len(out') = 1
          /\ LET kind == ArgsOf(op')[1]
                 key == kind \o <<DOT>> \o out'[1].v
             IN  /\ key \notin DOMAIN objects
                 /\ DOMAIN objects' = (DOMAIN objects) \cup {key}
                 /\ key \in DOMAIN objects'
                 /\ <<objects'[key].cls>> = kind
                 /\ objects'[key].dict[ID] = Str(out'[1].v)
          /\ \A k \in DOMAIN objects :
                k \in DOMAIN objects' /\ objects'[k] = objects[k]
          /\ FileMirrors(file', objects')
          /\ flushes' = 1]_vars

\* C8 witness: a create succeeded in a store that already held an entity.
C8_Witness ==
    /\ op.cmd = "create"
    /\ ~PrintsUserInputDiag(out)
    /\ err = "none"
    /\ Cardinality(DOMAIN objects) = 2
    /\ FileMirrors(file, objects)

\* the keys of the records of a backing file
KeysOfFile(f) == IF f.st = "json" THEN DOMAIN f.text ELSE {}

\* C9: a successful destroy removes exactly the entry "<kind>.<id>" and
\* writes the result: the other entries are unchanged, the file no longer
\* holds the key, and every later show or destroy of that pair prints
\* "** no instance found **".
C9_DestroyRemovesEntry ==
    [][/\ (/\ op'.cmd = "destroy"
           /\ err' = "none"
           /\ out' = <<>>) =>
             LET key == KeyOfArgs(ArgsOf(op'))
             IN  /\ key \in DOMAIN objects
                 /\ DOMAIN objects' = (DOMAIN objects) \ {key}
                 /\ \A k \in DOMAIN objects' : objects'[k] = objects[k]
                 /\ key \notin KeysOfFile(file')
                 /\ FileMirrors(file', objects')
                 /\ flushes' = 1
       /\ (/\ op'.cmd \in {"show", "destroy"}
           /\ err' = "none"
           /\ Len(ArgsOf(op')) >= 2
           /\ KeyOfArgs(ArgsOf(op')) \in destroyed) =>
             out' = <<NoInstanceFound>>]_vars

\* C9 witness: a show of a destroyed pair printed "** no instance found **"
\* while another entry is still stored.
C9_Witness ==
    /\ op.cmd = "show"
    /\ Len(ArgsOf(op)) = 2
    /\ KeyOfArgs(ArgsOf(op)) \in destroyed
    /\ out = <<NoInstanceFound>>
    /\ objects # EmptyDict
    /\ FileMirrors(file, objects)

\* the update command o passed every check against the store objs
UpdateSucceeded(o, objs) ==
    /\ o.cmd = "update"
    /\ ShlexSplit(o.line).ok
    /\ FirstFailing("update", ArgsOf(o), objs) = NoDiag

\* the text a value token denotes once its quotes are removed
QuotedTexts == {<<"x", SP, "y">>}

EndsWith(line, tail) ==
    /\ Len(line) >= Len(tail)
    /\ SubSeq(line, Len(line) - Len(tail) + 1, Len(line)) = tail

RECURSIVE CanonUpdates(_, _, _, _)
CanonUpdates(o, r, pairs, i) ==
    IF i > Len(pairs) \/ o.err # "none"
    THEN o
    ELSE CanonUpdates(update_outcome(o.objects, o.file,
                                     RefLine(r) \o <<SP>> \o PyStr(pairs[i][1])
                                         \o <<SP>> \o PyStr(pairs[i][2])),
                      r, pairs, i + 1)

\* C11: a bulk update K.update("id", {k1: v1, ..., kn: vn}) on a stored
\* entity leaves the store and the file as the canonical commands
\* `update K id ki vi` issued in order leave them, and each field ki
\* equals the full text of vi.
C11_BulkUpdateEquivalence ==
    [][op'.cmd = "dotted" =>
          \A r \in StoredRefs, ps \in PairLists :
              op'.line = BulkText(r, LiteralText(ps)) =>
                  LET c == CanonUpdates(Outcome(objects, file, <<>>, "none",
                                                0, {}), r, ps, 1)
                      key == KeyOfArgs(r)
                  IN  /\ objects' = c.objects
                      /\ file' = c.file
                      /\ \A i \in 1 .. Len(ps) :
                            /\ PyStr(ps[i][1]) \in DOMAIN objects'[key].dict
                            /\ objects'[key].dict[PyStr(ps[i][1])]
                                   = Str(PyStr(ps[i][2]))]_vars

\* C12: a dotted bulk update that prints the "multiple update command is
\* not used correctly" message has changed no field of any entity and has
\* not rewritten the file.
C12_BulkUpdateAllOrNothing ==
    [][(/\ op'.cmd = "dotted"
        /\ \E i \in 1 .. Len(out') : out'[i] = MultiUpdateDiag) =>
          /\ objects' = objects
          /\ file' = file
          /\ flushes' = 0]_vars

\* C13: a dotted call K.verb(a1, ..., an) with verb all, show, destroy or
\* update (no brace literal) prints what the canonical command
\* `verb K a1 ... an` prints and leaves the same store and file.
C13_DottedCallEquivalence ==
    [][op'.cmd = "dotted" =>
          \A c \in DottedCalls :
              op'.line = DottedText(c) =>
                  LET o == onecmd(objects, file, c.verb,
                                  Strip(c.kind \o <<SP>>
                                            \o Join(c.args, <<SP>>)))
                  IN  /\ objects' = o.objects
                      /\ file' = o.file
                      /\ out' = o.out]_vars

\* the stored entities an `all` or count of the kind token selects: every
\* one for the empty token, those of the kind otherwise
OfKind(objs, kind) ==
    {k \in DOMAIN objs : kind = <<>> \/ <<objs[k].cls>> = kind}

\* the display strings of the entities under the keys, each with the
\* number of keys it belongs to
DisplayStrings(objs, keys) ==
    [d \in {ToDisplayString(objs[k]) : k \in keys} |->
        Cardinality({k \in keys : ToDisplayString(objs[k]) = d})]

\* the display strings a command printed
PrintedStrings(lines) ==
    IF lines = <<>> THEN EmptyDict ELSE lines[1].items

\* C14: `all K` with a supported kind K prints the display strings of
\* exactly the stored entities of kind K, and `all` with no argument those
\* of every stored entity, whatever the store holds; nothing else is
\* printed and the store is left alone.
C14_AllPrintsKind ==
    [][(/\ op'.cmd = "all"
        /\ \/ op'.line = <<>>
           \/ \E K \in supported_classes : op'.line = <<K>>) =>
          /\ Len(out') <= 1
          /\ \A i \in 1 .. Len(out') : out'[i].print = "list"
          /\ PrintedStrings(out')
                = DisplayStrings(objects, OfKind(objects, op'.line))
          /\ objects' = objects
          /\ file' = file]_vars

\* a BaseModel and a User are stored and `all User` has printed one display
\* string, the User's
C14_Witness ==
    /\ op = Cmd("all", <<"User">>)
    /\ \E a, b \in DOMAIN objects :
          /\ objects[a].cls = "BaseModel"
          /\ objects[b].cls = "User"
          /\ Len(out) = 1
          /\ DOMAIN out[1].items = {ToDisplayString(objects[b])}

\* C15: K.count() with a supported kind K prints the number of stored
\* entities of kind K, the number `all K` selects, whatever the store
\* holds, and dispatches no command: the store and the file are left alone.
C15_CountPrintsNumber ==
    [][\A K \in supported_classes :
          (/\ op'.cmd = "dotted"
           /\ op'.line = <<K, DOT, "count", LP, RP>>) =>
              /\ out' = <<CountLine(Cardinality(OfKind(objects, <<K>>)))>>
              /\ objects' = objects
              /\ file' = file]_vars

\* the entities of a state: the stored ones and the one the API user holds
Entities == {objects[k] : k \in DOMAIN objects} \cup ({ent} \ {NoEntity})

\* C16: in every reachable state the id of every entity that has one is a
\* string; an id given as a number in a field map or assigned as a number
\* is stored as the text of the number.
C16_IdIsString ==
    /\ [](\A e \in Entities : ID \in DOMAIN e.dict => e.dict[ID].ty = "str")
    /\ [][(op'.cmd = "from_kwargs" =>
              \E kwargs \in ApiKwargs :
                  ent'.dict[ID] = Str(PyStr(kwargs[ID])))
           /\ (op'.cmd = "setattr" /\ op'.line = ID =>
                  \E a \in ReservedAssignments :
                      a[1] = ID /\ ent'.dict[ID] = Str(PyStr(a[2])))]_vars

\* the number 7 was assigned to the id of an entity built from a field map
\* whose id was the number 89, while a stored entity got its id from an
\* update command
C16_Witness ==
    /\ op = Cmd("setattr", ID)
    /\ ent.dict[ID] = Str(<<"7">>)
    /\ \E k \in DOMAIN objects : objects[k].dict[ID] = Str(<<"7">>)

\* the ids given at construction to the entities stored now or destroyed
\* before: the id part of their keys
IdsGiven == {RefOf(k)[2] : k \in (DOMAIN objects) \cup destroyed}

\* C17: the id a successful create gives to its entity is the id of no
\* entity constructed before, of the same kind or of another, so that the
\* create overwrites no entry and the store has one entry more.
C17_IdsAreUnique ==
    [][(/\ op'.cmd = "create"
        /\ err' = "none"
        /\ ~PrintsUserInputDiag(out')) =>
          /\ out'[1].v \notin IdsGiven
          /\ \A k \in DOMAIN objects : objects[k].dict[ID] # Str(out'[1].v)
          /\ Cardinality(DOMAIN objects')
                = Cardinality(DOMAIN objects) + 1]_vars

\* two creates of the same kind succeeded and their entities are stored
\* under different ids
C17_Witness ==
    /\ op.cmd = "create"
    /\ err = "none"
    /\ ~PrintsUserInputDiag(out)
    /\ \E a, b \in DOMAIN objects :
          /\ objects[a].cls = objects[b].cls
          /\ RefOf(a)[2] # RefOf(b)[2]
          /\ objects[a].dict[ID] # objects[b].dict[ID]

\* C18: an entity constructed with no field map has the three instance
\* fields id, created_at and updated_at and no other, and its created_at
\* and updated_at are one and the same instant, that of the construction.
C18_FreshEntityFields ==
    [][op'.cmd = "new" =>
          /\ DOMAIN ent'.dict = {ID, CREATED_AT, UPDATED_AT}
          /\ ent'.dict[CREATED_AT] = ent'.dict[UPDATED_AT]
          /\ ent'.dict[CREATED_AT] = Dt(clock)
          /\ ent'.dict[ID].ty = "str"
          /\ objects'[entKey'] = ent']_vars

\* a User was constructed with no field map at instant 1 and registered
C18_Witness ==
    /\ op = Cmd("new", <<"User">>)
    /\ DOMAIN ent.dict = {ID, CREATED_AT, UPDATED_AT}
    /\ ent.dict[UPDATED_AT] = Dt(1)
    /\ entKey \in DOMAIN objects

\* a step that is a call of save() on the entity the API user holds
IsApiSave == op'.cmd = "save" /\ ent # NoEntity

\* save() has set updated_at to the current instant, has left every other
\* field as it was and has called FileStorage.save once
SaveSetsNow ==
    /\ UPDATED_AT \in DOMAIN ent'.dict
    /\ ent'.dict[UPDATED_AT] = Dt(clock)
    /\ DOMAIN ent'.dict = (DOMAIN ent.dict) \cup {UPDATED_AT}
    /\ \A k \in (DOMAIN ent.dict) \ {UPDATED_AT} : ent'.dict[k] = ent.dict[k]
    /\ ent'.cls = ent.cls
    /\ flushes' = 1

\* C19: save() sets updated_at to the current instant, strictly greater
\* than its value before the call, leaves id, created_at and every other
\* field unchanged and flushes the store exactly once.
C19_SaveIncreasesUpdatedAt ==
    [][IsApiSave =>
          /\ SaveSetsNow
          /\ UPDATED_AT \in DOMAIN ent.dict =>
                ent'.dict[UPDATED_AT].v > ent.dict[UPDATED_AT].v]_vars

\* C19 as the code has it: save() sets updated_at to the current instant,
\* leaves every other field unchanged and flushes the store exactly once;
\* updated_at is strictly greater than before whenever its value before
\* the call was earlier than the current instant, which an assignment of a
\* later instant to updated_at can prevent.
C19_SaveSetsUpdatedAtToNow ==
    [][IsApiSave =>
          /\ SaveSetsNow
          /\ (UPDATED_AT \in DOMAIN ent.dict
                 /\ ent.dict[UPDATED_AT].v < clock) =>
                ent'.dict[UPDATED_AT].v > ent.dict[UPDATED_AT].v]_vars

\* a registered entity with a field of the user's was saved: updated_at is
\* later than created_at, the field is kept, the store holds the entity
\* and the file was written once
C19_Witness ==
    /\ op.cmd = "save"
    /\ entKey \in DOMAIN objects
    /\ objects[entKey] = ent
    /\ <<"name">> \in DOMAIN ent.dict
    /\ ent.dict[UPDATED_AT].v > ent.dict[CREATED_AT].v
    /\ ent.dict[UPDATED_AT].v < Future
    /\ flushes = 1
    /\ FileMirrors(file, objects)

\* what the assignment of value to the timestamp field k of e is to give:
\* a datetime or a parseable ISO-8601 string is stored as a datetime and
\* nothing is printed, any other value leaves the entity as it was and
\* prints the message
TimestampAssigned(e, k, value, e2, lines) ==
    IF value.ty = "dt"
    THEN k \in DOMAIN e2.dict /\ e2.dict[k] = value /\ lines = <<>>
    ELSE IF value.ty = "str" /\ FromIsoFormat(value.v).ok
         THEN /\ k \in DOMAIN e2.dict
              /\ e2.dict[k] = FromIsoFormat(value.v).v
              /\ lines = <<>>
         ELSE e2 = e /\ lines = <<TimestampDiag>>

\* C20: an assignment to created_at or updated_at of a value that is
\* neither a datetime nor a parseable ISO-8601 string leaves the field as
\* it was and prints "Failed to update datetime. Invalid input.", a
\* datetime or a parseable ISO-8601 string is stored as a datetime; in
\* every reachable state created_at and updated_at, where present, are
\* datetimes.
C20_TimestampValidation ==
    /\ [](\A e \in Entities : \A k \in timestamp_keys :
              k \in DOMAIN e.dict => e.dict[k].ty = "dt")
    /\ [][(op'.cmd = "setattr" /\ op'.line \in timestamp_keys) =>
              \E a \in ReservedAssignments :
                  /\ a[1] = op'.line
                  /\ TimestampAssigned(ent, a[1], a[2], ent', out')]_vars

\* the update lines that name the kind marker as the field
ClassUpdateLines ==
    {RefLine(r) \o <<SP>> \o CLASS \o <<SP, "User">> : r \in StoredRefs}

\* C21: no entity has an instance field "__class__" and to_dict reports
\* the class name of the entity under "__class__"; `update K id __class__ v`
\* prints nothing and leaves every stored entity as it was, and an entity
\* built from a field map that carries "__class__" is of the class that was
\* called.
C21_KindMarkerIsFixed ==
    /\ [](\A e \in Entities :
              /\ CLASS \notin DOMAIN e.dict
              /\ to_dict(e)[CLASS] = Str(<<e.cls>>))
    /\ [][(/\ (op'.cmd = "update" /\ op'.line \in ClassUpdateLines =>
                  objects' = objects /\ out' = <<>>)
            /\ (op'.cmd = "from_kwargs" => ent'.cls = "BaseModel"))]_vars

\* `update BaseModel <id> __class__ User` ran on a stored BaseModel, which
\* is a BaseModel still, and a BaseModel was built from a field map whose
\* "__class__" is "User"
C21_Witness ==
    /\ op.cmd = "update"
    /\ \E k \in DOMAIN objects :
          /\ op.line = RefLine(RefOf(k)) \o <<SP>> \o CLASS \o <<SP, "User">>
          /\ objects[k].cls = "BaseModel"
    /\ out = <<>>
    /\ flushes = 1
    /\ ent.cls = "BaseModel"
    /\ DOMAIN ent.dict = {ID}

\* C22: the construction of an entity with no field map adds that entity to
\* the store under "<class name>.<id>" and changes no other entry; the
\* construction of an entity from a field map, whatever the map, leaves the
\* store as it was.
C22_RegistersOnBareConstruction ==
    [][(/\ (op'.cmd = "new" =>
              /\ ID \in DOMAIN ent'.dict
              /\ entKey' = StoringKey(ent'.cls, PyStr(ent'.dict[ID]))
              /\ entKey' \notin DOMAIN objects
              /\ DOMAIN objects' = (DOMAIN objects) \cup {entKey'}
              /\ objects'[entKey'] = ent'
              /\ \A k \in DOMAIN objects : objects'[k] = objects[k])
        /\ (op'.cmd \in {"roundtrip", "from_map"} =>
              /\ objects' = objects
              /\ entKey' = <<>>))]_vars

\* a step that builds an entity from a field map taken from the held one
IsFromMap == op'.cmd \in {"roundtrip", "from_map"}

\* C23: an entity built from a field map has both timestamps: created_at
\* is the map's where the map has one and the current instant otherwise,
\* updated_at is the map's where the map has one and the entity's
\* created_at otherwise.
C23_ReconstructionTimestamps ==
    [][IsFromMap =>
          /\ CREATED_AT \in DOMAIN ent'.dict
          /\ UPDATED_AT \in DOMAIN ent'.dict
          /\ ent'.dict[CREATED_AT]
                \in {ent.dict[f] : f \in {CREATED_AT} \cap DOMAIN ent.dict}
                        \cup {Dt(clock)}
          /\ ent'.dict[UPDATED_AT]
                \in {ent.dict[f] : f \in {UPDATED_AT} \cap DOMAIN ent.dict}
                        \cup {ent'.dict[CREATED_AT]}]_vars

\* C24: an entity built from a field map that has no id entry is given a
\* new id, a string, so that every entity has an id.
C24_IdGeneratedIfAbsent ==
    [][IsFromMap =>
          /\ ID \in DOMAIN ent'.dict
          /\ ent'.dict[ID].ty = "str"]_vars

\* C25: storage.new(obj) raises and leaves the store as it was when obj
\* has no id or its class has no name; otherwise the store maps
\* "<class name>.<id>" to obj, whatever was under that key before, and
\* every other entry is as it was.
C25_RegisterChecksEntity ==
    [][op'.cmd = "register" =>
          IF ID \notin DOMAIN ent.dict \/ ent.cls = ""
          THEN err' = "TypeError" /\ objects' = objects
          ELSE LET key == <<ent.cls, DOT>> \o PyStr(ent.dict[ID])
               IN  /\ err' = "none"
                   /\ DOMAIN objects' = (DOMAIN objects) \cup {key}
                   /\ objects'[key] = ent
                   /\ \A k \in (DOMAIN objects) \ {key} :
                         objects'[k] = objects[k]]_vars

\* an entity built from the field map of a registered one and changed
\* since was registered: it is what the store holds under the key
C25_Witness ==
    /\ op.cmd = "register"
    /\ err = "none"
    /\ DOMAIN objects = {entKey}
    /\ objects[entKey] = ent
    /\ <<"name">> \in DOMAIN ent.dict
    /\ UPDATED_AT \in DOMAIN ent.dict
    /\ ent.dict[UPDATED_AT] = Dt(Future)

\* to_dict() of e has an entry for every instance field and for "__class__"
\* and no other: the class name under "__class__", the ISO-8601 text of
\* the datetime under created_at and updated_at, the value of the field
\* itself under any other key
ToDictMirrors(e) ==
    /\ DOMAIN to_dict(e) = (DOMAIN e.dict) \cup {CLASS}
    /\ to_dict(e)[CLASS] = Str(<<e.cls>>)
    /\ \A k \in DOMAIN e.dict :
          IF k \in timestamp_keys
          THEN /\ to_dict(e)[k].ty = "str"
               /\ FromIsoFormat(to_dict(e)[k].v).ok
               /\ FromIsoFormat(to_dict(e)[k].v).v = e.dict[k]
          ELSE to_dict(e)[k] = e.dict[k]

\* the display string of e shows the class name, the id and the instance
\* fields as they are: datetimes as datetimes and no "__class__"
DisplayShowsFields(e) ==
    /\ ToDisplayString(e).obj.cls = e.cls
    /\ ToDisplayString(e).obj.id = e.dict[ID]
    /\ ToDisplayString(e).obj.dict = e.dict
    /\ CLASS \notin DOMAIN ToDisplayString(e).obj.dict
    /\ \A k \in timestamp_keys \cap DOMAIN e.dict :
          ToDisplayString(e).obj.dict[k].ty = "dt"

\* C26: to_dict() of every entity has exactly one entry per instance field
\* with the value of the field, created_at and updated_at as ISO-8601
\* strings, and "__class__" with the class name; the display string of an
\* entity shows its instance fields as they are, without "__class__".
C26_ToDictAndDisplayString ==
    \A e \in Entities :
        /\ ToDictMirrors(e)
        /\ ID \in DOMAIN e.dict => DisplayShowsFields(e)

\* an entity with a field of the user's, an assigned created_at and a cast
\* id was turned into its field map, from which an entity was built
C26_Witness ==
    /\ op.cmd = "roundtrip"
    /\ DOMAIN ent.dict = {ID, CREATED_AT, UPDATED_AT, <<"name">>}
    /\ ent.dict[<<"name">>] = None
    /\ ent.dict[CREATED_AT] # ent.dict[UPDATED_AT]
    /\ to_dict(ent)[CREATED_AT] = Str(IsoFormat(0))

\* a create, destroy or update command that ran to its end: it raised
\* nothing and printed no diagnostic of a user-input error
CompletedWrite ==
    /\ op'.cmd \in {"create", "destroy", "update"}
    /\ err' = "none"
    /\ ~PrintsUserInputDiag(out')

\* C27: right after a create, destroy or update command that completed,
\* the backing file is one JSON object with one record per entry of the
\* store, under the same key and equal to to_dict() of the entity; the
\* records of destroyed entities are not in it, and it was written by one
\* call of FileStorage.save.
C27_WriteThroughSnapshot ==
    [][CompletedWrite =>
          /\ FileMirrors(file', objects')
          /\ \A key \in destroyed' : key \notin DOMAIN file'.text
          /\ flushes' = 1]_vars

\* a destroy completed in a store of two entities: the file holds the
\* record of the entity that is left and no other
C27_Witness ==
    /\ op.cmd = "destroy"
    /\ err = "none"
    /\ ~PrintsUserInputDiag(out)
    /\ Cardinality(destroyed) = 1
    /\ Cardinality(DOMAIN objects) = 1
    /\ file.st = "json"
    /\ DOMAIN file.text = DOMAIN objects

\* the store that reload is said to build from the file f: one entity per
\* key of the file, of the kind named before the first "." of the key,
\* reconstructed from the record
ReloadedFrom(objs, f) ==
    LET loaded == from_json_str(f)
    IN  /\ DOMAIN objs = DOMAIN loaded
        /\ \A key \in DOMAIN loaded :
              /\ key \in DOMAIN objs
              /\ Len(ClsNameOf(key)) = 1
              /\ objs[key].cls = ClsNameOf(key)[1]
              /\ objs[key] = InitFromKwargs(ClsNameOf(key)[1], loaded[key]).e

\* C28: reload() with an existing file completes and replaces the whole
\* store by the reconstruction of the file (an empty store for an empty
\* file); with no file it leaves the store as it was.
C28_ReloadReplacesStore ==
    [][op'.cmd = "reload" =>
          IF file.st = "absent"
          THEN objects' = objects /\ err' = "none"
          ELSE err' = "none" /\ ReloadedFrom(objects', file)]_vars

\* the names update treats specially: id, the timestamps, the kind marker
ReservedFields == {ID, CREATED_AT, UPDATED_AT, CLASS}

\* an update command that passed every check, names a field that is not
\* reserved, and ran to its end
PlainUpdate ==
    /\ UpdateSucceeded(op', objects)
    /\ ArgsOf(op')[3] \notin ReservedFields
    /\ err' = "none"

\* C29: a successful "update K id f v" with f not id, created_at,
\* updated_at or __class__ changes field f of the entity at K.id and
\* nothing else: the key set, every other entity, the kind of the entity,
\* its id, created_at, updated_at and its other fields stay as they were,
\* and no time is read.
C29_UpdateFrame ==
    [][PlainUpdate =>
          LET args == ArgsOf(op')
              key == KeyOfArgs(args)
              f == args[3]
          IN  /\ DOMAIN objects' = DOMAIN objects
              /\ key \in DOMAIN objects
              /\ \A k \in DOMAIN objects \ {key} : objects'[k] = objects[k]
              /\ objects'[key].cls = objects[key].cls
              /\ DOMAIN objects'[key].dict = DOMAIN objects[key].dict \cup {f}
              /\ \A g \in DOMAIN objects[key].dict \ {f} :
                    objects'[key].dict[g] = objects[key].dict[g]
              /\ clock' = clock]_vars

\* an update of the field age completed on an entity that has the field
\* name already, in a store of two entities where the other one has
\* neither field
C29_Witness ==
    /\ op.cmd = "update"
    /\ err = "none"
    /\ ShlexSplit(op.line).ok
    /\ Len(ArgsOf(op)) = 4
    /\ ArgsOf(op)[3] = <<"age">>
    /\ KeyOfArgs(ArgsOf(op)) \in DOMAIN objects
    /\ DOMAIN objects[KeyOfArgs(ArgsOf(op))].dict
           = {ID, CREATED_AT, UPDATED_AT, <<"name">>, <<"age">>}
    /\ objects[KeyOfArgs(ArgsOf(op))].dict[<<"age">>] = Str(<<"x">>)
    /\ \E k \in DOMAIN objects :
          DOMAIN objects[k].dict = {ID, CREATED_AT, UPDATED_AT}

\* the command o only reads: show, all, a blank line, a line with an
\* unknown verb, or a dotted call of show, all or count
ReadOnlyCommand(o) ==
    \/ o.cmd \in {"show", "all", "emptyline", "default"}
    \/ /\ o.cmd = "dotted"
       /\ parse_cmd(LStrip(o.line)) \in {"show", "all", "count"}

\* C30: show, all, count, a blank line and a line with an unknown verb
\* leave the store (its keys and every field of every entity) as it was,
\* call FileStorage.save not once and leave the file as it was, and read
\* no time, whether they print an entity, a diagnostic or raise.
C30_ReadOnlyCommands ==
    [][ReadOnlyCommand(op') =>
          /\ objects' = objects
          /\ file' = file
          /\ flushes' = 0
          /\ clock' = clock]_vars

\* a show that printed a stored entity, in a store of two entities with
\* their records in the file
C30_Witness ==
    /\ op.cmd = "show"
    /\ err = "none"
    /\ Len(out) = 1
    /\ ~PrintsUserInputDiag(out)
    /\ Cardinality(DOMAIN objects) = 2
    /\ FileMirrors(file, objects)

====
